---- MODULE Spec2Model ----
(***************************************************************************)
(* The movie catalog service of src/routes/movies.py: list, create, get,   *)
(* delete and update handlers over a relational store, with the request    *)
(* schemas of src/schemas/movies.py.                                        *)
(*                                                                         *)
(* A request is received, then handled by its handler in one step         *)
(* (Handle) and answered (Respond).  The concurrent specification SpecConc *)
(* runs create_movie in two sessions, one step per await.                  *)
(***************************************************************************)
EXTENDS Integers, Sequences, FiniteSets, TLC

VARIABLES
    movies,      \* committed rows of MovieModel
    countries,   \* committed rows of CountryModel
    genres,      \* committed rows of GenreModel
    actors,      \* committed rows of ActorModel
    languages,   \* committed rows of LanguageModel
    req,         \* the request being served
    resp,        \* its response, once handled
    pre,         \* the committed store when the handler was entered
    sess         \* the sessions of concurrent create_movie calls

vars == <<movies, countries, genres, actors, languages, req, resp, pre, sess>>

-----------------------------------------------------------------------------
(* Bounds of the model *)

MaxMovies == 2       \* movies the catalog may hold at once
MaxList == 2         \* length of a genres list in a create payload
MaxFields == 2       \* fields present in an update payload
MaxCatalog == 4      \* movies the catalog may hold in SpecList
MaxPage == 3         \* page numbers requested in SpecList
MaxRuns == 2         \* requests one session slot serves in SpecConc

(* Program constants *)

NAME_MAX_LENGTH == 255
SCORE_MAX == 100
MAX_FUTURE_DAYS == 365
COUNTRY_MAX_LENGTH == 3
PER_PAGE_MAX == 20

\* date.today(), as a day number; dates are day numbers too
Today == 0

-----------------------------------------------------------------------------
(* Value domains the requests are drawn from *)

LongName == "L256"
Names == {"Dune", "Heat"}
Dates == {Today + MAX_FUTURE_DAYS, Today + MAX_FUTURE_DAYS + 1}
Scores == {0, SCORE_MAX, SCORE_MAX + 1}
MovieStatusEnum == {"Released", "Post Production", "In Production"}
Codes == {"US", "FR"}
GenreNames == {"Action", "Drama"}

Fields == {"name", "date", "score", "overview", "status", "budget", "revenue"}

\* len(name): LongName stands for a string of 256 characters
StrLen(s) == IF s = LongName THEN NAME_MAX_LENGTH + 1 ELSE Len(s)

Max(S) == CHOOSE x \in S : \A y \in S : y <= x

\* Sequences over S of length at most n
SeqsUpTo(S, n) == UNION {[1..k -> S] : k \in 0..n}

Range(s) == {s[i] : i \in 1..Len(s)}

-----------------------------------------------------------------------------
(* The store *)

NoDB == [movies |-> {}, countries |-> {}, genres |-> {}, actors |-> {},
         languages |-> {}]

DB == [movies |-> movies, countries |-> countries, genres |-> genres,
       actors |-> actors, languages |-> languages]

\* The next value of an autoincrement primary key
NewId(rows) == Max({r.id : r \in rows} \cup {0}) + 1

\* Mutant: the movies table without its unique constraint
NoKeyConstraint(ms) == TRUE

\* UniqueConstraint("name", "date") of the movies table
MovieKeyUnique(ms) ==
    \A a, b \in ms : (a.name = b.name /\ a.date = b.date) => a = b

\* unique=True of CountryModel.code and of the name of GenreModel, ActorModel
\* and LanguageModel: a row with the key of row is already there
KeyTaken(rows, key, row) == \E r \in rows : r[key] = row[key]

\* Deleting a movie removes its row and its link rows, never a lookup row
DeletedRows(db, movie) == [db EXCEPT !.movies = @ \ {movie}]

\* result.scalar_one_or_none(): the single row, no row, or an error
ScalarOneOrNone(rows) ==
    IF rows = {} THEN [found |-> FALSE, many |-> FALSE]
    ELSE IF Cardinality(rows) = 1
         THEN [found |-> TRUE, many |-> FALSE, row |-> CHOOSE r \in rows : TRUE]
         ELSE [found |-> FALSE, many |-> TRUE]

-----------------------------------------------------------------------------
(* schemas/movies.py *)

\* MovieBaseSchema.date_not_too_far
date_not_too_far(value) == ~(value > Today + MAX_FUTURE_DAYS)

\* MovieCreateSchema (with the fields of MovieBaseSchema)
MovieCreateSchema(b) ==
    /\ StrLen(b.name) <= NAME_MAX_LENGTH
    /\ date_not_too_far(b.date)
    /\ b.score >= 0 /\ b.score <= SCORE_MAX
    /\ b.status \in MovieStatusEnum
    /\ b.budget >= 0
    /\ b.revenue >= 0
    /\ StrLen(b.country) <= COUNTRY_MAX_LENGTH

\* MovieUpdateSchema: every field optional, b holds the fields that were sent
MovieUpdateSchema(b) ==
    /\ "score" \in DOMAIN b => (b.score >= 0 /\ b.score <= SCORE_MAX)
    /\ "status" \in DOMAIN b => b.status \in MovieStatusEnum
    /\ "budget" \in DOMAIN b => b.budget >= 0
    /\ "revenue" \in DOMAIN b => b.revenue >= 0

\* Mutant: model_dump() without exclude_unset, an unset overview dumped
model_dump_all(b) ==
    [f \in DOMAIN b \cup {"overview"} |->
        IF f \in DOMAIN b THEN b[f] ELSE "None"]

\* update_data.model_dump(exclude_unset=True): the fields that were sent
model_dump_exclude_unset(b) == b

-----------------------------------------------------------------------------
(* The session: a transaction over the store.  work is what the session's  *)
(* own queries see, comm is what is committed, writes counts the INSERTs   *)
(* and COMMITs sent, failed is set once one of them has raised.            *)

Begin(db) == [work |-> db, comm |-> db, writes |-> 0, failed |-> FALSE]

\* Mutant: commit where the handler flushes
FlushCommits(comm, work) == work

\* db.flush(): the pending rows are sent inside the open transaction
db_flush(comm, work) == comm

\* db.commit()
db_commit(comm, work) == work

\* db.rollback()
db_rollback(comm, work) == comm

\* The handler raises: get_db closes the session, its transaction still open
SessionClose(comm, work) == comm

Raise(tx) == [tx EXCEPT !.failed = TRUE, !.writes = @ + 1]

\* db.add(row); await db.flush() on a lookup table whose column key is unique.
\* failAt is the number of the write at which the store fails (0: never).
AddAndFlush(tx, table, key, row, failAt) ==
    LET work == [tx.work EXCEPT ![table] = @ \cup {row}]
    IN IF tx.writes + 1 = failAt \/ KeyTaken(tx.work[table], key, row)
       THEN Raise(tx)
       ELSE [tx EXCEPT !.work = work, !.comm = db_flush(tx.comm, work),
                       !.writes = @ + 1]

\* select(CountryModel).where(CountryModel.code == code)
SelectByCode(rows, code) == {r \in rows : r.code = code}

\* Mutant: the lookup query without its where clause
SelectAnyName(rows, name) == rows

\* select(GenreModel | ActorModel | LanguageModel).where(Model.name == name)
SelectByName(rows, name) == {r \in rows : r.name = name}

NoObj == [id |-> 0]

\* create_movie, the country: look it up by code, insert it when absent
ResolveCountry(tx, code, failAt) ==
    LET sel == ScalarOneOrNone(SelectByCode(tx.work.countries, code))
        row == [id |-> NewId(tx.work.countries), code |-> code]
    IN IF tx.failed THEN [tx |-> tx, obj |-> NoObj]
       ELSE IF sel.many THEN [tx |-> Raise(tx), obj |-> NoObj]
       ELSE IF sel.found THEN [tx |-> tx, obj |-> sel.row]
       ELSE [tx |-> AddAndFlush(tx, "countries", "code", row, failAt), obj |-> row]

\* create_movie, one name of a genres, actors or languages list
ResolveName(tx, table, name, failAt) ==
    LET sel == ScalarOneOrNone(SelectByName(tx.work[table], name))
        row == [id |-> NewId(tx.work[table]), name |-> name]
    IN IF tx.failed THEN [tx |-> tx, obj |-> NoObj]
       ELSE IF sel.many THEN [tx |-> Raise(tx), obj |-> NoObj]
       ELSE IF sel.found THEN [tx |-> tx, obj |-> sel.row]
       ELSE [tx |-> AddAndFlush(tx, table, "name", row, failAt), obj |-> row]

\* create_movie, the loop over a list of names, in list order
RECURSIVE ResolveNames(_, _, _, _, _)
ResolveNames(tx, table, names, objs, failAt) ==
    IF names = <<>> THEN [tx |-> tx, objs |-> objs]
    ELSE LET r == ResolveName(tx, table, Head(names), failAt)
         IN ResolveNames(r.tx, table, Tail(names), Append(objs, r.obj), failAt)

\* db.add(new_movie); await db.commit(): the movie row and its link rows are
\* inserted and the transaction is committed
AddAndCommit(tx, movie, failAt) ==
    LET work == [tx.work EXCEPT !.movies = @ \cup {movie}]
    IN IF tx.failed THEN tx
       ELSE IF tx.writes + 1 = failAt \/ ~MovieKeyUnique(work.movies)
       THEN Raise(tx)
       ELSE [tx EXCEPT !.work = work, !.comm = db_commit(tx.comm, work),
                       !.writes = @ + 1]

Ids(objs) == {objs[i].id : i \in 1..Len(objs)}

\* MovieModel(...) of create_movie
NewMovie(id, b, country_obj, genre_objs, actor_objs, language_objs) ==
    [id |-> id, name |-> b.name, date |-> b.date, score |-> b.score,
     overview |-> b.overview, status |-> b.status, budget |-> b.budget,
     revenue |-> b.revenue, country_id |-> country_obj.id,
     genres |-> Ids(genre_objs), actors |-> Ids(actor_objs),
     languages |-> Ids(language_objs)]

\* Mutant: create_movie without its uniqueness query
SelectNoMovie(rows, b) == {}

\* select(MovieModel).where(name == b.name, date == b.date)
SelectByNameDate(rows, b) == {m \in rows : m.name = b.name /\ m.date = b.date}

\* POST /movies/
create_movie(b, db, failAt) ==
    LET existing_movie == ScalarOneOrNone(SelectByNameDate(db.movies, b))
        c == ResolveCountry(Begin(db), b.country, failAt)
        g == ResolveNames(c.tx, "genres", b.genres, <<>>, failAt)
        a == ResolveNames(g.tx, "actors", b.actors, <<>>, failAt)
        l == ResolveNames(a.tx, "languages", b.languages, <<>>, failAt)
        new_movie == NewMovie(NewId(l.tx.work.movies), b, c.obj, g.objs,
                              a.objs, l.objs)
        tx == AddAndCommit(l.tx, new_movie, failAt)
    IN IF existing_movie.found
       THEN [code |-> 409, db |-> db]
       ELSE IF existing_movie.many
       THEN [code |-> 500, db |-> db]
       ELSE IF tx.failed
       THEN [code |-> 500, db |-> SessionClose(tx.comm, tx.work),
             writes |-> tx.writes]
       ELSE [code |-> 201, db |-> tx.comm, movie |-> new_movie]

-----------------------------------------------------------------------------
(* The other handlers of routes/movies.py *)

\* select(MovieModel).where(MovieModel.id == movie_id)
SelectById(rows, movie_id) == {m \in rows : m.id = movie_id}

\* MovieDetailResponseSchema.model_validate(movie), with the joined rows
MovieDetail(movie, db) ==
    [id |-> movie.id, name |-> movie.name, date |-> movie.date,
     score |-> movie.score, overview |-> movie.overview,
     status |-> movie.status, budget |-> movie.budget,
     revenue |-> movie.revenue,
     country |-> {c \in db.countries : c.id = movie.country_id},
     genres |-> {g \in db.genres : g.id \in movie.genres},
     actors |-> {a \in db.actors : a.id \in movie.actors},
     languages |-> {l \in db.languages : l.id \in movie.languages}]

\* GET /movies/{movie_id}/
get_movie(movie_id, db) ==
    LET movie == ScalarOneOrNone(SelectById(db.movies, movie_id))
    IN IF ~movie.found
       THEN [code |-> 404, db |-> db]
       ELSE [code |-> 200, db |-> db, movie |-> MovieDetail(movie.row, db)]

\* Mutant: the delete is never committed
DeleteNoCommit(tx, movie, failAt) ==
    IF tx.writes + 1 = failAt
    THEN [tx EXCEPT !.failed = TRUE, !.writes = @ + 1]
    ELSE [tx EXCEPT !.work = DeletedRows(tx.work, movie), !.writes = @ + 1]

\* await db.delete(movie); await db.commit()
DeleteAndCommit(tx, movie, failAt) ==
    LET work == DeletedRows(tx.work, movie)
    IN IF tx.writes + 1 = failAt
       THEN Raise(tx)
       ELSE [tx EXCEPT !.work = work, !.comm = db_commit(tx.comm, work),
                       !.writes = @ + 1]

\* DELETE /movies/{movie_id}/
delete_movie(movie_id, db, failAt) ==
    LET movie == ScalarOneOrNone(SelectById(db.movies, movie_id))
        tx == DeleteAndCommit(Begin(db), movie.row, failAt)
    IN IF ~movie.found
       THEN [code |-> 404, db |-> db]
       ELSE IF tx.failed
       THEN [code |-> 500, db |-> SessionClose(tx.comm, tx.work)]
       ELSE [code |-> 204, db |-> tx.comm]

\* for field, value in dump.items(): setattr(movie, field, value)
SetAttrs(movie, dump) ==
    [f \in DOMAIN movie |-> IF f \in DOMAIN dump THEN dump[f] ELSE movie[f]]

\* await db.commit() of update_movie: the UPDATE is sent and committed
UpdateAndCommit(tx, movie, changed, failAt) ==
    LET work == [tx.work EXCEPT !.movies = (@ \ {movie}) \cup {changed}]
    IN IF tx.writes + 1 = failAt \/ ~MovieKeyUnique(work.movies)
       THEN Raise(tx)
       ELSE [tx EXCEPT !.work = work, !.comm = db_commit(tx.comm, work),
                       !.writes = @ + 1]

\* Mutant: update_movie without its except branch
UpdateUnhandled(tx) == [code |-> 500, db |-> tx.comm]

\* except Exception: await db.rollback(); raise HTTPException(400)
UpdateFailed(tx) == [code |-> 400, db |-> db_rollback(tx.comm, tx.work)]

\* PATCH /movies/{movie_id}/
update_movie(movie_id, b, db, failAt) ==
    LET movie == ScalarOneOrNone(SelectById(db.movies, movie_id))
        changed == SetAttrs(movie.row, model_dump_exclude_unset(b))
        tx == UpdateAndCommit(Begin(db), movie.row, changed, failAt)
    IN IF ~movie.found
       THEN [code |-> 404, db |-> db]
       ELSE IF tx.failed
       THEN UpdateFailed(tx)
       ELSE [code |-> 200, db |-> tx.comm]

\* Mutant: the query ordered by ascending id
RECURSIVE OrderByIdAsc(_)
OrderByIdAsc(rows) ==
    IF rows = {} THEN <<>>
    ELSE LET low == CHOOSE m \in rows : \A o \in rows : o.id >= m.id
         IN <<low>> \o OrderByIdAsc(rows \ {low})

\* select(MovieModel).order_by(MovieModel.id.desc())
RECURSIVE OrderByIdDesc(_)
OrderByIdDesc(rows) ==
    IF rows = {} THEN <<>>
    ELSE LET top == CHOOSE m \in rows : \A o \in rows : o.id <= m.id
         IN <<top>> \o OrderByIdDesc(rows \ {top})

\* ceil(a / b) for b > 0
Ceil(a, b) == (a + b - 1) \div b

\* apaginate(db, stmt, Params(page, size)): the page of an ordered query
apaginate(ordered, page, size) ==
    LET total == Len(ordered)
        first == (page - 1) * size + 1
        last == IF page * size < total THEN page * size ELSE total
    IN [items |-> SubSeq(ordered, first, last), total |-> total,
        page |-> page, size |-> size, pages |-> Ceil(total, size)]

\* f"/theater/movies/?page={page}&per_page={size}"
PageLink(page, size) == <<"/theater/movies/", page, size>>

None == <<>>

\* MovieResponseSchema of a row
MovieResponse(m) ==
    [id |-> m.id, name |-> m.name, date |-> m.date, score |-> m.score,
     overview |-> m.overview]

\* GET /movies/
get_movies(page, per_page, db) ==
    LET pg == apaginate(OrderByIdDesc(db.movies), page, per_page)
    IN IF pg.total = 0 \/ pg.items = <<>>
       THEN [code |-> 404, db |-> db]
       ELSE [code |-> 200, db |-> db,
             movies |-> [i \in DOMAIN pg.items |-> MovieResponse(pg.items[i])],
             prev_page |-> IF pg.page > 1
                           THEN PageLink(pg.page - 1, pg.size) ELSE None,
             next_page |-> IF pg.page < pg.pages
                           THEN PageLink(pg.page + 1, pg.size) ELSE None,
             total_pages |-> pg.pages,
             total_items |-> pg.total]

\* Query(1, ge=1) and Query(10, ge=1, le=20)
ListQueryValid(page, per_page) ==
    page >= 1 /\ per_page >= 1 /\ per_page <= PER_PAGE_MAX

-----------------------------------------------------------------------------
(* Requests *)

BaseBody ==
    [name |-> "Dune", date |-> Today + MAX_FUTURE_DAYS, score |-> 0,
     overview |-> "o1", status |-> "Released", budget |-> 0, revenue |-> 0,
     country |-> "US", genres |-> <<"Action">>, actors |-> <<"Ford">>,
     languages |-> <<"English">>]

\* Create payloads that fail one constraint of MovieCreateSchema each
InvalidBodies ==
    {[BaseBody EXCEPT !.name = LongName], [BaseBody EXCEPT !.status = "Bogus"],
     [BaseBody EXCEPT !.budget = -1], [BaseBody EXCEPT !.revenue = -1],
     [BaseBody EXCEPT !.country = "USSR"]}

\* Create payloads that vary the scalar fields
ScalarBodies ==
    {[BaseBody EXCEPT !.name = n, !.date = d, !.score = s] :
        n \in Names, d \in Dates, s \in Scores} \cup InvalidBodies

\* Create payloads that vary the related entities
LinkBodies ==
    {[BaseBody EXCEPT !.name = n, !.country = c, !.genres = g] :
        n \in Names, c \in Codes, g \in SeqsUpTo(GenreNames, MaxList)}

\* Create payloads of the paging specification
ListBodies ==
    {[BaseBody EXCEPT !.name = n, !.score = s] :
        n \in Names \cup {"Up", "Jaws", "Tron"}, s \in {0}}

\* Full sets of update values; an update payload is one of them restricted
\* to the fields that were sent
UpdateValues ==
    {[name |-> "Heat", date |-> Today + MAX_FUTURE_DAYS + 1, score |-> SCORE_MAX,
      overview |-> "o1", status |-> "Released", budget |-> 0, revenue |-> 0],
     [name |-> "Dune", date |-> Today + MAX_FUTURE_DAYS,
      score |-> SCORE_MAX + 1, overview |-> "o1", status |-> "Bogus",
      budget |-> -1, revenue |-> -1]}

Restrict(f, D) == [x \in D |-> f[x]]

UpdateBodies ==
    {Restrict(v, D) : v \in UpdateValues,
                      D \in {F \in SUBSET Fields : Cardinality(F) <= MaxFields}}

MovieIds(cap) == 1..(cap + 1)

NoReq == [op |-> "none"]
NoResp == [code |-> 0]

\* The INSERTs and COMMITs a create may send
Writes(b) == 2 + Len(b.genres) + Len(b.actors) + Len(b.languages)

-----------------------------------------------------------------------------
(* Concurrent create_movie calls: each runs in its own session and yields  *)
(* at every await.  A session's queries see the committed rows and its own *)
(* flushed rows; the store enforces the unique keys of its tables.         *)

Sessions == {1, 2}

Tables == {"countries", "genres", "actors", "languages"}

NoRows == [t \in Tables |-> {}]

IdleSession ==
    [pc |-> "idle", b |-> BaseBody, todo |-> <<>>, own |-> NoRows,
     objs |-> [t \in Tables |-> <<>>], absent |-> {}, code |-> 0,
     runs |-> 0]

\* Create payloads of the concurrent specification
ConcBodies ==
    {[BaseBody EXCEPT !.name = n, !.country = v[1], !.genres = v[2],
                      !.actors = v[3], !.languages = v[4]] :
        n \in Names,
        v \in {<<"US", <<"Action", "Drama">>, <<>>, <<>> >>,
               <<"FR", <<"Drama", "Action">>, <<"Ford">>, <<"English">> >>,
               <<"FR", <<>>, <<>>, <<>> >>}}

\* The lookups of create_movie in the order the handler makes them
Lookups(b) ==
    <<  <<"countries", b.country>> >>
    \o [i \in 1..Len(b.genres) |-> <<"genres", b.genres[i]>>]
    \o [i \in 1..Len(b.actors) |-> <<"actors", b.actors[i]>>]
    \o [i \in 1..Len(b.languages) |-> <<"languages", b.languages[i]>>]

Matching(rows, table, key) ==
    IF table = "countries" THEN SelectByCode(rows, key)
    ELSE SelectByName(rows, key)

KeyColumn(table) == IF table = "countries" THEN "code" ELSE "name"

NewRow(table, id, key) ==
    IF table = "countries" THEN [id |-> id, code |-> key]
    ELSE [id |-> id, name |-> key]

\* What a query of session s sees of a table
View(s, table) == DB[table] \cup sess[s].own[table]

\* The rows of a table other sessions have flushed and not yet committed
PendingElsewhere(s, table) ==
    UNION {sess[o].own[table] : o \in Sessions \ {s}}

AfterLookup(ss) == IF ss.todo = <<>> THEN "commit" ELSE "select"

StoreUnchanged == UNCHANGED <<movies, countries, genres, actors, languages>>

\* The request arrives
Start(s, bodies, cap) ==
    /\ sess[s].pc = "idle"
    /\ sess[s].runs < MaxRuns
    /\ Cardinality(movies) < cap
    /\ \E b \in bodies :
        sess' = [sess EXCEPT ![s] =
            [IdleSession EXCEPT !.pc = "check", !.b = b, !.todo = Lookups(b),
                !.runs = sess[s].runs + 1,
                !.absent = {Lookups(b)[i] : i \in
                    {j \in 1..Len(Lookups(b)) :
                        Matching(DB[Lookups(b)[j][1]], Lookups(b)[j][1],
                                 Lookups(b)[j][2]) = {}}}]]
    /\ StoreUnchanged /\ UNCHANGED <<req, resp, pre>>

\* The uniqueness query of create_movie
Check(s) ==
    /\ sess[s].pc = "check"
    /\ LET existing_movie ==
               ScalarOneOrNone(SelectByNameDate(movies, sess[s].b))
       IN sess' = [sess EXCEPT ![s] =
              IF existing_movie.found
              THEN [@ EXCEPT !.pc = "done", !.code = 409]
              ELSE [@ EXCEPT !.pc = "select"]]
    /\ StoreUnchanged /\ UNCHANGED <<req, resp, pre>>

\* The query of one get-or-create
Select(s) ==
    /\ sess[s].pc = "select"
    /\ LET table == Head(sess[s].todo)[1]
           key == Head(sess[s].todo)[2]
           sel == ScalarOneOrNone(Matching(View(s, table), table, key))
       IN sess' = [sess EXCEPT ![s] =
              IF sel.found
              THEN [@ EXCEPT !.objs[table] = Append(@, sel.row),
                             !.todo = Tail(@),
                             !.pc = AfterLookup([todo |-> Tail(sess[s].todo)])]
              ELSE [@ EXCEPT !.pc = "flush"]]
    /\ StoreUnchanged /\ UNCHANGED <<req, resp, pre>>

\* db.add(row); await db.flush() of one get-or-create.  The INSERT waits
\* while another transaction holds the same key uncommitted, and violates
\* the unique key once a row with that key is committed.
Flush(s) ==
    /\ sess[s].pc = "flush"
    /\ LET table == Head(sess[s].todo)[1]
           key == Head(sess[s].todo)[2]
           row == NewRow(table,
                         NewId(View(s, table) \cup PendingElsewhere(s, table)),
                         key)
       IN /\ ~KeyTaken(PendingElsewhere(s, table), KeyColumn(table), row)
          /\ sess' = [sess EXCEPT ![s] =
                 IF KeyTaken(DB[table], KeyColumn(table), row)
                 THEN [@ EXCEPT !.pc = "done", !.code = 500, !.own = NoRows]
                 ELSE [@ EXCEPT !.own[table] = @ \cup {row},
                                !.objs[table] = Append(@, row),
                                !.todo = Tail(@),
                                !.pc = AfterLookup([todo |-> Tail(sess[s].todo)])]]
    /\ StoreUnchanged /\ UNCHANGED <<req, resp, pre>>

\* Session s waits in its INSERT for a key session o holds uncommitted
WaitsFor(s, o) ==
    /\ sess[s].pc = "flush"
    /\ LET table == Head(sess[s].todo)[1]
           key == Head(sess[s].todo)[2]
       IN KeyTaken(sess[o].own[table], KeyColumn(table), NewRow(table, 0, key))

\* Two INSERTs wait for each other: the store ends the deadlock by failing
\* one of them
FlushAbort(s) ==
    /\ \E o \in Sessions \ {s} : WaitsFor(s, o) /\ WaitsFor(o, s)
    /\ sess' = [sess EXCEPT ![s] =
           [@ EXCEPT !.pc = "done", !.code = 500, !.own = NoRows]]
    /\ StoreUnchanged /\ UNCHANGED <<req, resp, pre>>

\* db.add(new_movie); await db.commit()
Commit(s) ==
    /\ sess[s].pc = "commit"
    /\ LET ss == sess[s]
           new_movie == NewMovie(NewId(movies), ss.b, ss.objs.countries[1],
                                 ss.objs.genres, ss.objs.actors,
                                 ss.objs.languages)
       IN IF ~MovieKeyUnique(movies \cup {new_movie})
          THEN /\ sess' = [sess EXCEPT ![s] =
                      [@ EXCEPT !.pc = "done", !.code = 500, !.own = NoRows]]
               /\ StoreUnchanged
          ELSE /\ sess' = [sess EXCEPT ![s] =
                      [@ EXCEPT !.pc = "done", !.code = 201, !.own = NoRows]]
               /\ movies' = movies \cup {new_movie}
               /\ countries' = countries \cup ss.own.countries
               /\ genres' = genres \cup ss.own.genres
               /\ actors' = actors \cup ss.own.actors
               /\ languages' = languages \cup ss.own.languages
    /\ UNCHANGED <<req, resp, pre>>

\* The response is sent and the session closed
Finish(s) ==
    /\ sess[s].pc = "done"
    /\ sess' = [sess EXCEPT ![s] = [IdleSession EXCEPT !.runs = sess[s].runs]]
    /\ StoreUnchanged /\ UNCHANGED <<req, resp, pre>>

-----------------------------------------------------------------------------
(* Actions: a request arrives and its handler runs to its response *)

Init ==
    /\ movies = {} /\ countries = {} /\ genres = {} /\ actors = {}
    /\ languages = {}
    /\ req = NoReq /\ resp = NoResp /\ pre = NoDB
    /\ sess = [s \in Sessions |-> IdleSession]

Install(db) ==
    /\ movies' = db.movies
    /\ countries' = db.countries
    /\ genres' = db.genres
    /\ actors' = db.actors
    /\ languages' = db.languages

\* The response without the store
Response(r) == [x \in DOMAIN r \ {"db"} |-> r[x]]

Unprocessable == [code |-> 422]

CreateMovie(bodies, cap) ==
    /\ req.op = "none"
    /\ Cardinality(movies) < cap
    /\ \E b \in bodies :
        /\ req' = [op |-> "create", b |-> b]
        /\ pre' = DB
        /\ IF ~MovieCreateSchema(b)
           THEN resp' = Unprocessable /\ Install(DB)
           ELSE \E failAt \in 0..Writes(b) :
                    LET r == create_movie(b, DB, failAt)
                    IN resp' = Response(r) /\ Install(r.db)
    /\ UNCHANGED sess

GetMovie(cap) ==
    /\ req.op = "none"
    /\ \E id \in MovieIds(cap) :
        /\ req' = [op |-> "get", id |-> id]
        /\ pre' = DB
        /\ LET r == get_movie(id, DB)
           IN resp' = Response(r) /\ Install(r.db)
    /\ UNCHANGED sess

DeleteMovie(cap) ==
    /\ req.op = "none"
    /\ \E id \in MovieIds(cap), failAt \in 0..1 :
        /\ req' = [op |-> "delete", id |-> id]
        /\ pre' = DB
        /\ LET r == delete_movie(id, DB, failAt)
           IN resp' = Response(r) /\ Install(r.db)
    /\ UNCHANGED sess

UpdateMovie(bodies, cap) ==
    /\ req.op = "none"
    /\ \E id \in MovieIds(cap), b \in bodies :
        /\ req' = [op |-> "update", id |-> id, b |-> b]
        /\ pre' = DB
        /\ IF ~MovieUpdateSchema(b)
           THEN resp' = Unprocessable /\ Install(DB)
           ELSE \E failAt \in 0..1 :
                    LET r == update_movie(id, b, DB, failAt)
                    IN resp' = Response(r) /\ Install(r.db)
    /\ UNCHANGED sess

GetMovies(pages) ==
    /\ req.op = "none"
    /\ \E page \in pages, per_page \in 0..(PER_PAGE_MAX + 1) :
        /\ req' = [op |-> "list", page |-> page, per_page |-> per_page]
        /\ pre' = DB
        /\ IF ~ListQueryValid(page, per_page)
           THEN resp' = Unprocessable /\ Install(DB)
           ELSE LET r == get_movies(page, per_page, DB)
                IN resp' = Response(r) /\ Install(r.db)
    /\ UNCHANGED sess

\* The response is sent; the next request may arrive
Respond ==
    /\ req.op # "none"
    /\ req' = NoReq /\ resp' = NoResp /\ pre' = NoDB
    /\ UNCHANGED <<movies, countries, genres, actors, languages, sess>>

\* The catalog under sequential requests, varying the scalar fields
Next ==
    \/ CreateMovie(ScalarBodies, MaxMovies)
    \/ UpdateMovie(UpdateBodies, MaxMovies)
    \/ DeleteMovie(MaxMovies)
    \/ GetMovie(MaxMovies)
    \/ Respond

Spec == Init /\ [][Next]_vars

\* The catalog under sequential requests, varying the related entities
NextLinks ==
    \/ CreateMovie(LinkBodies, MaxMovies)
    \/ DeleteMovie(MaxMovies)
    \/ GetMovie(MaxMovies)
    \/ Respond

SpecLinks == Init /\ [][NextLinks]_vars

\* The catalog under create, delete and list requests
NextList ==
    \/ CreateMovie(ListBodies, MaxCatalog)
    \/ DeleteMovie(MaxCatalog)
    \/ GetMovies(0..MaxPage)
    \/ Respond

SpecList == Init /\ [][NextList]_vars

\* create_movie in two concurrent sessions
NextConc ==
    \E s \in Sessions :
        \/ Start(s, ConcBodies, MaxMovies)
        \/ Check(s)
        \/ Select(s)
        \/ Flush(s)
        \/ FlushAbort(s)
        \/ Commit(s)
        \/ Finish(s)

SpecConc == Init /\ [][NextConc]_vars

-----------------------------------------------------------------------------
(* Properties *)

Handled(op) == req.op = op /\ resp.code # 0

Codes_(rows) == {r.code : r \in rows}
Names_(rows) == {r.name : r \in rows}

SameKey(a, b) == a.name = b.name /\ a.date = b.date

\* C1: in every reachable state of create, update and delete requests no two
\* stored movies share both name and release date, also after an update that
\* moves a movie onto the name and date of another.
C1_UniqueNameDate ==
    \A a, b \in movies : a.id # b.id => ~SameKey(a, b)

\* An update that would have given a movie the name and date of another
\* one was refused.
C1_Witness ==
    /\ Handled("update") /\ resp.code = 400
    /\ DOMAIN req.b \cap {"name", "date"} # {}
    /\ \E m \in movies, o \in movies :
        /\ m.id = req.id /\ o.id # m.id
        /\ SameKey(SetAttrs(m, req.b), o)

\* C2: a create whose name and date are those of a stored movie answers 409
\* and writes nothing: movies, lookup rows and links are as before, also
\* when the payload names lookup keys that do not exist yet.
C2_ConflictNoWrites ==
    Handled("create") =>
        /\ resp.code = 409 => (DB = pre /\ \E m \in pre.movies : SameKey(m, req.b))
        /\ (MovieCreateSchema(req.b) /\ \E m \in pre.movies : SameKey(m, req.b))
               => (resp.code = 409 /\ DB = pre)

\* A conflicting create named a country and a genre that did not exist.
C2_Witness ==
    /\ Handled("create") /\ resp.code = 409
    /\ req.b.country \notin Codes_(countries)
    /\ \E i \in 1..Len(req.b.genres) : req.b.genres[i] \notin Names_(genres)

\* C3: create is all-or-nothing: when it fails nothing it wrote is committed,
\* neither the movie nor a lookup row flushed before the failure; when it
\* succeeds the movie, its links and the new lookup rows are all committed.
C3_CreateAtomic ==
    Handled("create") =>
        /\ resp.code # 201 => DB = pre
        /\ resp.code = 201 =>
            /\ resp.movie \notin pre.movies
            /\ movies = pre.movies \cup {resp.movie}
            /\ \E c \in countries :
                c.id = resp.movie.country_id /\ c.code = req.b.country
            /\ Names_({g \in genres : g.id \in resp.movie.genres})
                   = Range(req.b.genres)
            /\ Names_({a \in actors : a.id \in resp.movie.actors})
                   = Range(req.b.actors)
            /\ Names_({l \in languages : l.id \in resp.movie.languages})
                   = Range(req.b.languages)

\* A create failed after it had flushed a new country and a new genre.
C3_Witness ==
    /\ Handled("create") /\ resp.code = 500
    /\ resp.writes >= 3
    /\ req.b.country \notin Codes_(countries)
    /\ req.b.genres # <<>> /\ Range(req.b.genres) \cap Names_(genres) = {}

\* C4: a successful create adds one row per lookup key of its payload that
\* did not exist and none for a key that did, a repeated name included; no
\* two countries share a code and no two rows of one lookup table a name.
C4_GetOrCreate ==
    /\ Cardinality(Codes_(countries)) = Cardinality(countries)
    /\ Cardinality(Names_(genres)) = Cardinality(genres)
    /\ Cardinality(Names_(actors)) = Cardinality(actors)
    /\ Cardinality(Names_(languages)) = Cardinality(languages)
    /\ (Handled("create") /\ resp.code = 201) =>
        /\ pre.countries \subseteq countries
        /\ Codes_(countries) = Codes_(pre.countries) \cup {req.b.country}
        /\ pre.genres \subseteq genres
        /\ Names_(genres) = Names_(pre.genres) \cup Range(req.b.genres)
        /\ pre.actors \subseteq actors
        /\ Names_(actors) = Names_(pre.actors) \cup Range(req.b.actors)
        /\ pre.languages \subseteq languages
        /\ Names_(languages) = Names_(pre.languages) \cup Range(req.b.languages)

\* A create reused the stored country and added one row for a new genre
\* its payload named twice.
C4_Witness ==
    /\ Handled("create") /\ resp.code = 201
    /\ req.b.country \in Codes_(pre.countries)
    /\ countries = pre.countries
    /\ Len(req.b.genres) = 2 /\ req.b.genres[1] = req.b.genres[2]
    /\ req.b.genres[1] \notin Names_(pre.genres)
    /\ Cardinality(genres) = Cardinality(pre.genres) + 1

\* C5: a successful update sets the fields of its payload to the values
\* given and leaves everything else as it was: the other fields, the id,
\* the country and the links of the movie, the other movies, the lookup rows.
C5_UpdateFrame ==
    (Handled("update") /\ resp.code = 200) =>
        \E old \in pre.movies, new \in movies :
            /\ old.id = req.id /\ new.id = req.id
            /\ \A f \in DOMAIN req.b : new[f] = req.b[f]
            /\ \A f \in DOMAIN old \ DOMAIN req.b : new[f] = old[f]
            /\ movies \ {new} = pre.movies \ {old}
            /\ countries = pre.countries /\ genres = pre.genres
            /\ actors = pre.actors /\ languages = pre.languages

\* An update of the score alone changed the score of one of two movies.
C5_Witness ==
    /\ Handled("update") /\ resp.code = 200
    /\ DOMAIN req.b = {"score"}
    /\ Cardinality(movies) = 2
    /\ \E old \in pre.movies : old.id = req.id /\ old.score # req.b.score

\* C6: every stored movie satisfies the constraints of creation after any
\* successful creates and updates, the fields of an update being validated
\* as on creation.
C6_StoredMoviesValid ==
    \A m \in movies :
        /\ StrLen(m.name) <= NAME_MAX_LENGTH
        /\ date_not_too_far(m.date)
        /\ m.score >= 0 /\ m.score <= SCORE_MAX
        /\ m.budget >= 0 /\ m.revenue >= 0

\* C7: an update of a stored movie whose commit fails answers 400 and leaves
\* the store as it was; an update of an unknown id answers 404 and changes
\* nothing.
C7_UpdateFailure ==
    (Handled("update") /\ resp.code # 422) =>
        /\ (\E m \in pre.movies : m.id = req.id) => resp.code \in {200, 400}
        /\ (\A m \in pre.movies : m.id # req.id) => resp.code = 404
        /\ resp.code \in {400, 404} => DB = pre

\* An update that would have changed a stored movie failed with 400.
C7_Witness ==
    /\ Handled("update") /\ resp.code = 400
    /\ \E m \in movies : m.id = req.id /\ SetAttrs(m, req.b) # m

\* C8: a delete of a stored movie removes that movie with its links and
\* nothing else: get then answers 404, the other movies and every lookup row
\* stay; a delete of an unknown id answers 404 and changes nothing.
C8_DeleteFrame ==
    Handled("delete") =>
        /\ (\A m \in pre.movies : m.id # req.id) => (resp.code = 404 /\ DB = pre)
        /\ (\E m \in pre.movies : m.id = req.id) => resp.code \in {204, 500}
        /\ resp.code = 500 => DB = pre
        /\ resp.code = 204 =>
            /\ movies = {m \in pre.movies : m.id # req.id}
            /\ get_movie(req.id, DB).code = 404
            /\ countries = pre.countries /\ genres = pre.genres
            /\ actors = pre.actors /\ languages = pre.languages

\* The deleted movie was the last one linked to a genre and another movie
\* is still stored.
C8_Witness ==
    /\ Handled("delete") /\ resp.code = 204
    /\ movies # {}
    /\ \E old \in pre.movies :
        /\ old.id = req.id
        /\ \E g \in genres : g.id \in old.genres
                             /\ \A m \in movies : g.id \notin m.genres

Min(a, b) == IF a < b THEN a ELSE b

\* C9: for page >= 1 and per_page in 1..20 the list answers 404 exactly when
\* the page holds no movie; otherwise it returns min(per_page, remaining)
\* movies by descending id, the movie count, ceil(count / per_page) pages, no
\* previous link exactly on page 1 and no next link exactly on the last page.
C9_Pagination ==
    (Handled("list") /\ resp.code # 422) =>
        LET total == Cardinality(movies)
            remaining == total - (req.page - 1) * req.per_page
        IN /\ DB = pre
           /\ resp.code \in {200, 404}
           /\ resp.code = 404 <=> remaining <= 0
           /\ resp.code = 200 =>
               /\ Len(resp.movies) = Min(req.per_page, remaining)
               /\ \A i \in 1..Len(resp.movies) :
                   /\ \E m \in movies : MovieResponse(m) = resp.movies[i]
                   /\ Cardinality({m \in movies : m.id > resp.movies[i].id})
                          = (req.page - 1) * req.per_page + i - 1
               /\ resp.total_items = total
               /\ resp.total_pages * req.per_page >= total
               /\ (resp.total_pages - 1) * req.per_page < total
               /\ resp.prev_page = None <=> req.page = 1
               /\ resp.next_page = None <=> req.page = resp.total_pages
               /\ req.page > 1 =>
                      resp.prev_page = PageLink(req.page - 1, req.per_page)
               /\ req.page < resp.total_pages =>
                      resp.next_page = PageLink(req.page + 1, req.per_page)

\* The last page of several, holding fewer movies than per_page.
C9_Witness ==
    /\ Handled("list") /\ resp.code = 200
    /\ req.page > 1 /\ req.per_page > 1
    /\ Len(resp.movies) < req.per_page
    /\ resp.next_page = None

BothDone == \A s \in Sessions : sess[s].pc = "done"

\* C10: once two concurrent creates have finished, the committed store
\* holds no two movies with one name and date and no two lookup rows with
\* one key, and creates of two different movies that named the same lookup
\* key while it did not exist have both succeeded.
C10_ConcurrentCreates ==
    BothDone =>
        /\ \A a, b \in movies : a.id # b.id => ~SameKey(a, b)
        /\ Cardinality(Codes_(countries)) = Cardinality(countries)
        /\ Cardinality(Names_(genres)) = Cardinality(genres)
        /\ Cardinality(Names_(actors)) = Cardinality(actors)
        /\ Cardinality(Names_(languages)) = Cardinality(languages)
        /\ (/\ ~SameKey(sess[1].b, sess[2].b)
            /\ sess[1].absent \cap sess[2].absent # {}
            /\ \A s \in Sessions : sess[s].code # 409)
               => \A s \in Sessions : sess[s].code = 201

====
